---- MODULE Spec2Model ----
(***************************************************************************)
(* A model of latex_normalizer.py: the markup-stripping pipeline and the   *)
(* helpers it is built from.  Texts are sequences of one-character         *)
(* strings; positions are the 0-based indices the Python code uses.        *)
(* A call is modelled as a small state machine: entry is the function      *)
(* that was called, pc the statement it has reached, err the message       *)
(* of the exception that ended it ("none" while no exception was raised).  *)
(***************************************************************************)
EXTENDS Integers, Sequences, FiniteSets, TLC

VARIABLES entry, pc, input, text, head, tail, tokens, intervals,
          open_paren, close_paren, pos, err

vars == <<entry, pc, input, text, head, tail, tokens, intervals,
          open_paren, close_paren, pos, err>>

(***************************************************************************)
(* Characters and character classes of Python's re module (str patterns).  *)
(***************************************************************************)
BS == "\\"
NL == "\n"
SP == " "

LowerCase == {"a", "b", "c", "d", "e", "f", "g", "h", "i", "j", "k", "l", "m",
              "n", "o", "p", "q", "r", "s", "t", "u", "v", "w", "x", "y", "z"}
UpperCase == {"A", "B", "C", "D", "E", "F", "G", "H", "I", "J", "K", "L", "M",
              "N", "O", "P", "Q", "R", "S", "T", "U", "V", "W", "X", "Y", "Z"}
Digits == {"0", "1", "2", "3", "4", "5", "6", "7", "8", "9"}
\* a letter outside ASCII: a word character for \w, not matched by [a-zA-Z]
NonAsciiLetters == {"é"}

\* [a-zA-Z]
IsAsciiLetter(c) == c \in LowerCase \cup UpperCase
\* \s, and the separators of str.split()
IsWhiteSpace(c) == c \in {" ", "\n", "\t", "\r", "\f"}
\* \w
IsWordChar(c) == c \in LowerCase \cup UpperCase \cup Digits \cup NonAsciiLetters \cup {"_"}
\* . (without re.DOTALL)
IsDot(c) == c # NL

(***************************************************************************)
(* Python sequence primitives, 0-based.                                    *)
(***************************************************************************)
Min(a, b) == IF a < b THEN a ELSE b

\* s[i], for 0 <= i < len(s)
At(s, i) == s[i + 1]
\* s[a:b], for 0 <= a
Slice(s, a, b) == SubSeq(s, a + 1, Min(b, Len(s)))
\* s[a:]
From(s, a) == SubSeq(s, a + 1, Len(s))
\* x in s
Contains(s, x) == \E k \in 1..Len(s) : s[k] = x
\* s[i:].startswith(lit)
StartsWith(s, i, lit) ==
    /\ i + Len(lit) <= Len(s)
    /\ \A k \in 1..Len(lit) : s[i + k] = lit[k]

\* the order of Python tuples of two integers
PairLess(p, q) == p[1] < q[1] \/ (p[1] = q[1] /\ p[2] < q[2])

RECURSIVE InsertPair(_, _)
InsertPair(sorted, p) ==
    IF sorted = <<>> THEN <<p>>
    ELSE IF PairLess(p, Head(sorted)) THEN <<p>> \o sorted
    ELSE <<Head(sorted)>> \o InsertPair(Tail(sorted), p)

\* sorted(pairs)
RECURSIVE SortedPairs(_)
SortedPairs(pairs) ==
    IF pairs = <<>> THEN <<>>
    ELSE InsertPair(SortedPairs(SubSeq(pairs, 1, Len(pairs) - 1)), pairs[Len(pairs)])

Reversed(s) == [k \in 1..Len(s) |-> s[Len(s) + 1 - k]]

\* max(s) of a non-empty list of integers
MaxOf(s) == CHOOSE m \in {s[k] : k \in 1..Len(s)} : \A k \in 1..Len(s) : s[k] <= m

(***************************************************************************)
(* _matching_paren_pos                                                     *)
(***************************************************************************)
\* the for loop: depth is len(open_parens)
RECURSIVE ParenScan(_, _, _, _, _)
ParenScan(string, p, depth, open, close) ==
    IF p >= Len(string) THEN [err |-> "unmatched parenthesis", val |-> 0]
    ELSE IF At(string, p) = open
        THEN ParenScan(string, p + 1, depth + 1, open, close)
    ELSE IF At(string, p) = close
        THEN IF depth = 0 THEN [err |-> "IndexError", val |-> 0]
             ELSE IF depth = 1 THEN [err |-> "none", val |-> p]
             ELSE ParenScan(string, p + 1, depth - 1, open, close)
    ELSE ParenScan(string, p + 1, depth, open, close)

MatchingParenPos(string, open, close) ==
    IF string = <<>> THEN [err |-> "IndexError", val |-> 0]
    ELSE IF At(string, 0) # open THEN [err |-> "leading character", val |-> 0]
    ELSE ParenScan(string, 0, 0, open, close)

(***************************************************************************)
(* _matching_brackets_digram                                               *)
(***************************************************************************)
\* the for loop over the digrams; stack holds the positions of the opening
\* brackets, matches the pairs found so far
RECURSIVE DigramScan(_, _, _, _, _, _)
DigramScan(txt, p, stack, matches, open_bracket, close_bracket) ==
    IF p + 1 >= Len(txt)
        THEN IF stack # <<>> THEN [err |-> "brackets are unbalanced", val |-> <<>>]
             ELSE [err |-> "none", val |-> matches]
    ELSE IF Slice(txt, p, p + 2) = open_bracket
        THEN DigramScan(txt, p + 1, Append(stack, p), matches,
                        open_bracket, close_bracket)
    ELSE IF Slice(txt, p, p + 2) = close_bracket
        THEN IF stack = <<>> THEN [err |-> "brackets are unbalanced", val |-> <<>>]
             ELSE DigramScan(txt, p + 1, SubSeq(stack, 1, Len(stack) - 1),
                             Append(matches, <<stack[Len(stack)], p + 1>>),
                             open_bracket, close_bracket)
    ELSE DigramScan(txt, p + 1, stack, matches, open_bracket, close_bracket)

MatchingBracketsDigram(txt, open_bracket, close_bracket) ==
    DigramScan(txt, 0, <<>>, <<>>, open_bracket, close_bracket)

(***************************************************************************)
(* _interval_to_indices and _excise_intervals                              *)
(***************************************************************************)
IntervalToIndices(interval) ==
    IF interval[2] < interval[1]
        THEN [err |-> "interval out of order", val |-> <<>>]
        ELSE [err |-> "none",
              val |-> [k \in 1..(interval[2] - interval[1] + 1) |-> interval[1] + k - 1]]

\* the first for loop, over sorted(intervals)
RECURSIVE ExciseCollect(_, _, _, _)
ExciseCollect(sorted, k, indices_list, ii_list) ==
    IF k > Len(sorted)
        THEN [err |-> "none", indices_list |-> indices_list, ii_list |-> ii_list]
    ELSE LET start == sorted[k][1]
             end == sorted[k][2]
             indices == IntervalToIndices(sorted[k])
         IN  IF Contains(indices_list, start)
                THEN IF Contains(indices_list, end)
                        THEN ExciseCollect(sorted, k + 1, indices_list, ii_list)
                        ELSE [err |-> "non-trivially overlapping intervals",
                              indices_list |-> indices_list, ii_list |-> ii_list]
             ELSE IF indices.err # "none"
                THEN [err |-> indices.err,
                      indices_list |-> indices_list, ii_list |-> ii_list]
             ELSE ExciseCollect(sorted, k + 1, indices_list \o indices.val,
                    ii_list \o [j \in 1..Len(indices.val) |->
                                  <<indices.val[j], IF j = 1 THEN 1 ELSE 0>>])

\* the second for loop: one index is replaced by a space or deleted
ExciseOne(txt, index, indicator) ==
    IF indicator = 1
        THEN Slice(txt, 0, index) \o <<SP>> \o From(txt, index + 1)
        ELSE Slice(txt, 0, index) \o From(txt, index + 1)

RECURSIVE ExciseApply(_, _, _)
ExciseApply(txt, ii_list, k) ==
    IF k > Len(ii_list) THEN txt
    ELSE ExciseApply(ExciseOne(txt, ii_list[k][1], ii_list[k][2]), ii_list, k + 1)

\* as ExciseOrder, without reverse=True
ExciseOrderAscending(ii_list) == SortedPairs(ii_list)

\* sorted(ii_list, reverse=True)
ExciseOrder(ii_list) == Reversed(SortedPairs(ii_list))

ExciseIntervals(txt, ivs) ==
    LET c == ExciseCollect(SortedPairs(ivs), 1, <<>>, <<>>)
    IN  IF c.err # "none" THEN [err |-> c.err, val |-> txt]
        ELSE IF ivs = <<>> THEN [err |-> "none", val |-> txt]
        ELSE IF MaxOf(c.indices_list) > Len(txt) - 1
            THEN [err |-> "interval out of bounds", val |-> txt]
        ELSE [err |-> "none", val |-> ExciseApply(txt, ExciseOrder(c.ii_list), 1)]

(***************************************************************************)
(* _remove_line_comments: a percent sign after an even number of           *)
(* backslashes, with the rest of its line and the newline, is replaced by  *)
(* those backslashes and one space.                                        *)
(***************************************************************************)
\* the number of consecutive backslashes of txt from position i on
RECURSIVE BackslashRun(_, _)
BackslashRun(txt, i) ==
    IF i < Len(txt) /\ At(txt, i) = BS THEN 1 + BackslashRun(txt, i + 1) ELSE 0

\* (?<!\\): the character before position i is not a backslash
NotAfterBackslash(txt, i) == i = 0 \/ At(txt, i - 1) # BS

\* the position of the first newline at or after position i, Len(txt) if none
RECURSIVE NextNewline(_, _)
NextNewline(txt, i) ==
    IF i >= Len(txt) \/ At(txt, i) = NL THEN i ELSE NextNewline(txt, i + 1)

\* the end of the match of the pattern at position i, -1 if it does not match
LineCommentMatchEnd(txt, i) ==
    LET r == BackslashRun(txt, i)
        n == NextNewline(txt, i + r + 1)
    IN  IF /\ NotAfterBackslash(txt, i)
           /\ r % 2 = 0
           /\ i + r < Len(txt)
           /\ At(txt, i + r) = "%"
           /\ n < Len(txt)
        THEN n + 1 ELSE -1

RECURSIVE LineCommentSub(_, _)
LineCommentSub(txt, i) ==
    IF i >= Len(txt) THEN <<>>
    ELSE LET e == LineCommentMatchEnd(txt, i)
         IN  IF e = -1 THEN <<At(txt, i)>> \o LineCommentSub(txt, i + 1)
             ELSE Slice(txt, i, i + BackslashRun(txt, i)) \o <<SP>>
                  \o LineCommentSub(txt, e)

RemoveLineComments(txt) == LineCommentSub(txt, 0)

(***************************************************************************)
(* _remove_accents                                                         *)
(***************************************************************************)
AccentLetters == {"u", "v", "H", "t", "c", "d", "b", "k"}
\* the grave accent character, which the lexer of TLA+ does not accept in a string
GRAVE == "grave"
AccentNonLetters == {"'", GRAVE, "^", "\"", "~", "=", "."}

\* \\(?:u|v|...)(?:\ |{(\w{1,2})}): [end |-> end of the match or -1, grp |-> \1]
LetterAccentMatch(txt, i) ==
    IF ~(i + 2 < Len(txt) /\ At(txt, i) = BS /\ At(txt, i + 1) \in AccentLetters)
        THEN [end |-> -1, grp |-> <<>>]
    ELSE IF At(txt, i + 2) = SP THEN [end |-> i + 3, grp |-> <<>>]
    ELSE IF At(txt, i + 2) # "{" THEN [end |-> -1, grp |-> <<>>]
    ELSE IF /\ i + 5 < Len(txt)
            /\ IsWordChar(At(txt, i + 3)) /\ IsWordChar(At(txt, i + 4))
            /\ At(txt, i + 5) = "}"
        THEN [end |-> i + 6, grp |-> Slice(txt, i + 3, i + 5)]
    ELSE IF /\ i + 4 < Len(txt)
            /\ IsWordChar(At(txt, i + 3))
            /\ At(txt, i + 4) = "}"
        THEN [end |-> i + 5, grp |-> Slice(txt, i + 3, i + 4)]
    ELSE [end |-> -1, grp |-> <<>>]

\* \\(?:'|...)(?:{(\w)})?
NonLetterAccentMatch(txt, i) ==
    IF ~(i + 1 < Len(txt) /\ At(txt, i) = BS /\ At(txt, i + 1) \in AccentNonLetters)
        THEN [end |-> -1, grp |-> <<>>]
    ELSE IF /\ i + 4 < Len(txt)
            /\ At(txt, i + 2) = "{"
            /\ IsWordChar(At(txt, i + 3))
            /\ At(txt, i + 4) = "}"
        THEN [end |-> i + 5, grp |-> Slice(txt, i + 3, i + 4)]
    ELSE [end |-> i + 2, grp |-> <<>>]

RECURSIVE LetterAccentSub(_, _)
LetterAccentSub(txt, i) ==
    IF i >= Len(txt) THEN <<>>
    ELSE LET m == LetterAccentMatch(txt, i)
         IN  IF m.end = -1 THEN <<At(txt, i)>> \o LetterAccentSub(txt, i + 1)
             ELSE m.grp \o LetterAccentSub(txt, m.end)

RECURSIVE NonLetterAccentSub(_, _)
NonLetterAccentSub(txt, i) ==
    IF i >= Len(txt) THEN <<>>
    ELSE LET m == NonLetterAccentMatch(txt, i)
         IN  IF m.end = -1 THEN <<At(txt, i)>> \o NonLetterAccentSub(txt, i + 1)
             ELSE m.grp \o NonLetterAccentSub(txt, m.end)

RemoveAccents(txt) == NonLetterAccentSub(LetterAccentSub(txt, 0), 0)

(***************************************************************************)
(* _normalize_commands                                                     *)
(***************************************************************************)
normalized_commands ==
    << <<"s", "u", "b", "s", "u", "b", "s", "e", "c", "t", "i", "o", "n">>,
       <<"s", "u", "b", "s", "e", "c", "t", "i", "o", "n">>,
       <<"s", "e", "c", "t", "i", "o", "n">>,
       <<"c", "h", "a", "p", "t", "e", "r">>,
       <<"t", "i", "t", "l", "e">>,
       <<"a", "u", "t", "h", "o", "r">>,
       <<"f", "o", "o", "t", "n", "o", "t", "e">>,
       <<"e", "m", "p", "h">> >>

\* \\(subsubsection|...|emph)(?=c): the end of the match at i, the first
\* alternative that the lookahead accepts; -1 if none
NormalizedCommandMatchEnd(txt, i, c) ==
    LET fits(k) == /\ StartsWith(txt, i + 1, normalized_commands[k])
                   /\ i + 1 + Len(normalized_commands[k]) < Len(txt)
                   /\ At(txt, i + 1 + Len(normalized_commands[k])) = c
        ks == {k \in 1..Len(normalized_commands) : fits(k)}
    IN  IF i < Len(txt) /\ At(txt, i) = BS /\ ks # {}
        THEN i + 1 + Len(normalized_commands[CHOOSE k \in ks : \A j \in ks : k <= j])
        ELSE -1

\* finditer: the ends (open_pos) of the matches followed by an opening brace
RECURSIVE NormalizedCommandMatches(_, _)
NormalizedCommandMatches(txt, i) ==
    IF i >= Len(txt) THEN <<>>
    ELSE LET e == NormalizedCommandMatchEnd(txt, i, "{")
         IN  IF e = -1 THEN NormalizedCommandMatches(txt, i + 1)
             ELSE <<e>> \o NormalizedCommandMatches(txt, e)

\* the body of the for loop, for the match that ends at open_p
NormalizeOne(txt, open_p) ==
    LET m == MatchingParenPos(From(txt, open_p), "{", "}")
        close_p == open_p + m.val
    IN  IF m.err = "none"
        THEN Slice(txt, 0, open_p) \o <<SP>> \o Slice(txt, open_p + 1, close_p)
             \o <<SP>> \o From(txt, close_p + 1)
        ELSE Slice(txt, 0, open_p) \o <<SP>> \o From(txt, open_p + 1)

\* the for loop: the matches were found in the text the function was given
RECURSIVE NormalizeAll(_, _, _)
NormalizeAll(txt, matches, k) ==
    IF k > Len(matches) THEN txt
    ELSE NormalizeAll(NormalizeOne(txt, matches[k]), matches, k + 1)

\* the final sub: a listed command followed by a space is deleted
RECURSIVE BareCommandSub(_, _)
BareCommandSub(txt, i) ==
    IF i >= Len(txt) THEN <<>>
    ELSE LET e == NormalizedCommandMatchEnd(txt, i, SP)
         IN  IF e = -1 THEN <<At(txt, i)>> \o BareCommandSub(txt, i + 1)
             ELSE BareCommandSub(txt, e)

NormalizeCommands(txt) ==
    BareCommandSub(NormalizeAll(txt, NormalizedCommandMatches(txt, 0), 1), 0)

(***************************************************************************)
(* _remove_environments and _strip_environments_labels                     *)
(***************************************************************************)
\* the listed environments; star tells whether the pattern ends with \*?
removed_env ==
    << [name |-> <<"c", "o", "m", "m", "e", "n", "t">>, star |-> FALSE],
       [name |-> <<"f", "i", "g", "u", "r", "e">>, star |-> FALSE],
       [name |-> <<"t", "i", "k", "z", "p", "i", "c", "t", "u", "r", "e">>, star |-> FALSE],
       [name |-> <<"e", "q", "u", "a", "t", "i", "o", "n">>, star |-> TRUE],
       [name |-> <<"m", "u", "l", "t", "l", "i", "n", "e">>, star |-> TRUE],
       [name |-> <<"a", "l", "i", "g", "n">>, star |-> TRUE],
       [name |-> <<"g", "a", "t", "h", "e", "r">>, star |-> TRUE] >>

\* the end of the match of  tag env }  at position i, -1 if it does not match
EnvTagMatchEnd(txt, i, tag, env) ==
    LET j == i + Len(tag) + Len(env.name)
    IN  IF ~(StartsWith(txt, i, tag) /\ StartsWith(txt, i + Len(tag), env.name))
            THEN -1
        ELSE IF env.star /\ StartsWith(txt, j, <<"*", "}">>) THEN j + 2
        ELSE IF StartsWith(txt, j, <<"}">>) THEN j + 1
        ELSE -1

\* [\s\S]*? followed by the end tag: the end of the first end tag at or after i
RECURSIVE EnvEndAfter(_, _, _)
EnvEndAfter(txt, i, env) ==
    IF i >= Len(txt) THEN -1
    ELSE LET e == EnvTagMatchEnd(txt, i, <<BS, "e", "n", "d", "{">>, env)
         IN  IF e # -1 THEN e ELSE EnvEndAfter(txt, i + 1, env)

EnvMatchEnd(txt, i, env) ==
    LET b == EnvTagMatchEnd(txt, i, <<BS, "b", "e", "g", "i", "n", "{">>, env)
    IN  IF b = -1 THEN -1 ELSE EnvEndAfter(txt, b, env)

RECURSIVE EnvSub(_, _, _)
EnvSub(txt, i, env) ==
    IF i >= Len(txt) THEN <<>>
    ELSE LET e == EnvMatchEnd(txt, i, env)
         IN  IF e = -1 THEN <<At(txt, i)>> \o EnvSub(txt, i + 1, env)
             ELSE EnvSub(txt, e, env)

\* the for loop over removed_env
RECURSIVE RemoveEnvFrom(_, _)
RemoveEnvFrom(txt, k) ==
    IF k > Len(removed_env) THEN txt
    ELSE RemoveEnvFrom(EnvSub(txt, 0, removed_env[k]), k + 1)

RemoveEnvironments(txt) == RemoveEnvFrom(txt, 1)

label_tags == << <<"b", "e", "g", "i", "n">>, <<"e", "n", "d">>, <<"l", "a", "b", "e", "l">> >>

\* .*?} : the end of the first closing brace at or after i on the same line
RECURSIVE BraceEndOnLine(_, _)
BraceEndOnLine(txt, i) ==
    IF i >= Len(txt) \/ ~IsDot(At(txt, i)) THEN -1
    ELSE IF At(txt, i) = "}" THEN i + 1
    ELSE BraceEndOnLine(txt, i + 1)

\* \\(begin|end|label){.*?}
LabelMatchEnd(txt, i) ==
    LET ks == {k \in 1..Len(label_tags) :
                 /\ StartsWith(txt, i + 1, label_tags[k])
                 /\ StartsWith(txt, i + 1 + Len(label_tags[k]), <<"{">>)}
    IN  IF i < Len(txt) /\ At(txt, i) = BS /\ ks # {}
        THEN BraceEndOnLine(txt,
                 i + 2 + Len(label_tags[CHOOSE k \in ks : \A j \in ks : k <= j]))
        ELSE -1

RECURSIVE LabelSub(_, _)
LabelSub(txt, i) ==
    IF i >= Len(txt) THEN <<>>
    ELSE LET e == LabelMatchEnd(txt, i)
         IN  IF e = -1 THEN <<At(txt, i)>> \o LabelSub(txt, i + 1)
             ELSE <<SP>> \o LabelSub(txt, e)

StripEnvironmentsLabels(txt) == LabelSub(txt, 0)

(***************************************************************************)
(* _remove_commands: the command pattern and the split at its first match  *)
(***************************************************************************)
paren_dict == [c \in {"{", "["} |-> IF c = "{" THEN "}" ELSE "]"]

\* the number of characters of [\w@] from position i on
RECURSIVE CommandNameRun(_, _)
CommandNameRun(txt, i) ==
    IF i < Len(txt) /\ (IsWordChar(At(txt, i)) \/ At(txt, i) = "@")
        THEN 1 + CommandNameRun(txt, i + 1) ELSE 0

\* as CommandMatchEnd, with a name of one character or more ([\w@]+)
CommandMatchEndNamed(txt, i) ==
    LET j == i + 1 + CommandNameRun(txt, i + 1)
    IN  IF ~(i < Len(txt) /\ At(txt, i) = BS) \/ j = i + 1 THEN -1
        ELSE IF j < Len(txt) /\ At(txt, j) = "*" THEN j + 1
        ELSE j

\* command_regex: a backslash, the name, an optional star; the end of the
\* match at position i, -1 if there is no backslash at i
CommandMatchEnd(txt, i) ==
    LET j == i + 1 + CommandNameRun(txt, i + 1)
    IN  IF ~(i < Len(txt) /\ At(txt, i) = BS) THEN -1
        ELSE IF j < Len(txt) /\ At(txt, j) = "*" THEN j + 1
        ELSE j

\* the position of the first match of command_regex at or after i, -1 if none
RECURSIVE CommandSearch(_, _)
CommandSearch(txt, i) ==
    IF i >= Len(txt) THEN -1
    ELSE IF CommandMatchEnd(txt, i) # -1 THEN i
    ELSE CommandSearch(txt, i + 1)

\* as CommandSplit, with the second part starting at the match, not after it
CommandSplitKeepingMatch(txt) ==
    LET i == CommandSearch(txt, 0)
    IN  IF i = -1 THEN <<txt>>
        ELSE <<Slice(txt, 0, i), From(txt, i)>>

\* command_regex.split(tail, maxsplit=1)
CommandSplit(txt) ==
    LET i == CommandSearch(txt, 0)
    IN  IF i = -1 THEN <<txt>>
        ELSE <<Slice(txt, 0, i), From(txt, CommandMatchEnd(txt, i))>>

(***************************************************************************)
(* _remove_dollar_equations: the two patterns and one pass of the pairing  *)
(***************************************************************************)
\* the number of consecutive dollar signs of txt from position i on
RECURSIVE DollarRun(_, _)
DollarRun(txt, i) ==
    IF i < Len(txt) /\ At(txt, i) = "$" THEN 1 + DollarRun(txt, i + 1) ELSE 0

\* the longest run of dollar signs one token takes, and the run that is an error
MaxTokenLen == 4
BadRunLen == 5

\* bad_syntax_regex.search(text)
BadSyntax(txt) ==
    \E i \in 0..(Len(txt) - 1) :
        /\ NotAfterBackslash(txt, i)
        /\ BackslashRun(txt, i) % 2 = 0
        /\ DollarRun(txt, i + BackslashRun(txt, i)) >= BadRunLen

\* token_regex: the end of the match at position i, -1 if it does not match
TokenMatchEnd(txt, i) ==
    LET r == BackslashRun(txt, i)
    IN  IF /\ NotAfterBackslash(txt, i)
           /\ r % 2 = 0
           /\ DollarRun(txt, i + r) >= 1
        THEN i + r + Min(MaxTokenLen, DollarRun(txt, i + r))
        ELSE -1

\* tokens: (start, finish - start) of the spans of token_regex.finditer(text)
RECURSIVE Tokens(_, _)
Tokens(txt, i) ==
    IF i >= Len(txt) THEN <<>>
    ELSE LET e == TokenMatchEnd(txt, i)
         IN  IF e = -1 THEN Tokens(txt, i + 1)
             ELSE << <<i, e - i>> >> \o Tokens(txt, e)

\* as PairPass, with the interval of a longer open token starting at open_pos
PairPassWholeOpen(toks, ivs) ==
    IF Len(toks) < 2
        THEN [err |-> "LaTeX syntax error", tokens |-> toks, intervals |-> ivs]
    ELSE LET close_pos == toks[Len(toks)][1]
             close_len == toks[Len(toks)][2]
             open_pos == toks[Len(toks) - 1][1]
             open_len == toks[Len(toks) - 1][2]
             rest == SubSeq(toks, 1, Len(toks) - 2)
         IN  IF close_len = 3 \/ open_len < close_len
                THEN [err |-> "LaTeX syntax error", tokens |-> rest, intervals |-> ivs]
             ELSE [err |-> "none",
                   tokens |-> IF open_len = close_len THEN rest
                              ELSE Append(rest, <<open_pos, open_len - close_len>>),
                   intervals |-> Append(ivs, <<open_pos, close_pos + close_len - 1>>)]

\* one pass of the while loop on a non-empty token stack
PairPass(toks, ivs) ==
    IF Len(toks) < 2
        THEN [err |-> "LaTeX syntax error", tokens |-> toks, intervals |-> ivs]
    ELSE LET close_pos == toks[Len(toks)][1]
             close_len == toks[Len(toks)][2]
             open_pos == toks[Len(toks) - 1][1]
             open_len == toks[Len(toks) - 1][2]
             rest == SubSeq(toks, 1, Len(toks) - 2)
             remainder == open_len - close_len
         IN  IF close_len = 3
                THEN [err |-> "LaTeX syntax error", tokens |-> rest, intervals |-> ivs]
             ELSE IF close_len = open_len
                THEN [err |-> "none", tokens |-> rest,
                      intervals |-> Append(ivs, <<open_pos, close_pos + close_len - 1>>)]
             ELSE IF open_len > close_len
                THEN [err |-> "none",
                      tokens |-> Append(rest, <<open_pos, remainder>>),
                      intervals |-> Append(ivs, <<open_pos + remainder,
                                                  close_pos + close_len - 1>>)]
             ELSE [err |-> "LaTeX syntax error", tokens |-> rest, intervals |-> ivs]

(***************************************************************************)
(* _remove_bracket_equations                                               *)
(***************************************************************************)
RemoveBracketEquations(txt) ==
    LET round == MatchingBracketsDigram(txt, <<BS, "(">>, <<BS, ")">>)
        square == MatchingBracketsDigram(txt, <<BS, "[">>, <<BS, "]">>)
    IN  IF round.err # "none" THEN [err |-> round.err, val |-> txt]
        ELSE IF square.err # "none" THEN [err |-> square.err, val |-> txt]
        ELSE ExciseIntervals(txt, round.val \o square.val)

(***************************************************************************)
(* _remove_special_characters and _remove_white_space                      *)
(***************************************************************************)
\* as RemoveSpecialCharacters, with the class [^\w\s] in place of [^a-zA-Z\s]
RemoveNonWordCharacters(txt) ==
    [k \in 1..Len(txt) |->
        IF IsWordChar(txt[k]) \/ IsWhiteSpace(txt[k]) THEN txt[k] ELSE SP]

RemoveSpecialCharacters(txt) ==
    [k \in 1..Len(txt) |->
        IF IsAsciiLetter(txt[k]) \/ IsWhiteSpace(txt[k]) THEN txt[k] ELSE SP]

\* text.split(): the maximal runs of characters that are not white space
RECURSIVE SplitWords(_, _, _)
SplitWords(txt, i, word) ==
    IF i >= Len(txt) THEN (IF word = <<>> THEN <<>> ELSE <<word>>)
    ELSE IF IsWhiteSpace(At(txt, i))
        THEN (IF word = <<>> THEN <<>> ELSE <<word>>) \o SplitWords(txt, i + 1, <<>>)
    ELSE SplitWords(txt, i + 1, Append(word, At(txt, i)))

\* " ".join(words)
RECURSIVE JoinWords(_)
JoinWords(words) ==
    IF words = <<>> THEN <<>>
    ELSE IF Len(words) = 1 THEN words[1]
    ELSE words[1] \o <<SP>> \o JoinWords(Tail(words))

RemoveWhiteSpace(txt) == JoinWords(SplitWords(txt, 0, <<>>))

(***************************************************************************)
(* Inputs.  The texts a call is given are all the texts over a small       *)
(* alphabet up to a bounded length, and the example texts of the doctests  *)
(* and of the specification.                                               *)
(***************************************************************************)
TextsOver(alphabet, n) == UNION {[1..k -> alphabet] : k \in 0..n}

\* two backslashes (a line break) directly before '$x$'
ExLineBreakEquation == <<BS, BS, "$", "x", "$">>

ExEscapedDollars ==
    <<"N", "o", SP, "e", "q", "u", "a", "t", "i", "o", "n", ",", SP, BS,
    "$", "3", ".", "5", "0", ",", SP, BS, "$", "2">>
ExEscapedInEquation ==
    <<"A", "n", SP, "e", "q", "u", "a", "t", "i", "o", "n", SP, "$", "1",
    SP, "+", SP, "1", BS, "$", "$", SP, "s", "h", "o", "u", "l", "d", SP,
    "g", "o">>
ExRoundEquation ==
    <<"s", "e", "e", SP, BS, "(", "x", SP, "+", SP, "y", BS, ")", SP, "h",
    "e", "r", "e">>
ExSquareEquation ==
    <<"s", "e", "e", SP, BS, "[", "x", SP, "+", SP, "y", BS, "]", SP, "h",
    "e", "r", "e">>
ExNested ==
    <<"$", "$", SP, BS, "t", "e", "x", "t", "{", "$", "n", "e", "s", "t",
    "e", "d", "$", "}", SP, "$", "$">>
ExDocument ==
    <<BS, "b", "e", "g", "i", "n", "{", "d", "o", "c", "u", "m", "e", "n",
    "t", "}", SP, "H", "i", "!", SP, BS, "e", "n", "d", "{", "d", "o", "c",
    "u", "m", "e", "n", "t", "}">>
ExAccent ==
    <<"h", "y", "p", "e", "r", "k", BS, "\"", "{", "a", "}", "h", "l", "e",
    "r", SP, BS, "c", SP, "C", "a">>
ExChapter ==
    <<BS, "c", "h", "a", "p", "t", "e", "r", "{", "O", "n", "{", "e", "}",
    "}", SP, BS, "e", "m", "p", "h", SP, "t", "w", "o">>
ExFigure ==
    <<"a", BS, "b", "e", "g", "i", "n", "{", "f", "i", "g", "u", "r", "e",
    "}", "x", BS, "e", "n", "d", "{", "f", "i", "g", "u", "r", "e", "}",
    "b">>
ExComment ==
    <<"H", "i", ",", SP, "I", SP, "d", "o", ".", SP, "%", "c", "o", "m",
    "m", "e", "n", "t", NL, "N", "e", "x", "t", SP, "2", SP, "l", "i", "n",
    "e", "\t", SP, "é">>
ExBackToBack ==
    <<"$", SP, "b", "a", "c", "k", SP, "$", "$", SP, "t", "o", SP, "$", "$",
    SP, "b", "a", "c", "k", SP, "$">>
ExDisplayPair ==
    <<"$", "$", SP, "$", "$", "$", "$", SP, "$", "$">>
ExTripleOpen ==
    <<"$", SP, "b", "a", "c", "k", SP, "$", "$", "$", SP, "t", "o", SP, "b",
    "a", "c", "k", SP, "$", "$">>

Examples ==
    {ExEscapedDollars, ExEscapedInEquation, ExRoundEquation, ExSquareEquation,
     ExNested, ExDocument, ExAccent, ExChapter, ExFigure, ExComment,
     ExBackToBack, ExDisplayPair, ExTripleOpen}

MaxLen == 5
PipelineAlphabet == {BS, "$", "{", "}", "a", SP}
PipelineInputs == TextsOver(PipelineAlphabet, MaxLen) \cup Examples

(***************************************************************************)
(* The state machine.  Continue(fn) is the statement reached when fn       *)
(* returns: the end of the call if fn is the function that was called,     *)
(* the next statement of its caller otherwise.                             *)
(***************************************************************************)
Continue(fn) ==
    IF entry = fn THEN "done"
    ELSE CASE fn = "_remove_line_comments" -> "accents"
           [] fn = "_remove_accents" -> "normalize_commands"
           [] fn = "_normalize_commands" -> "environments"
           [] fn = "_remove_environments" -> "labels"
           [] fn = "_strip_environments_labels" -> "commands"
           [] fn = "_remove_commands" -> "dollar_equations"
           [] fn = "_remove_dollar_equations" -> "bracket_equations"
           [] fn = "_remove_bracket_equations" ->
                IF entry = "_remove_equations" THEN "done" ELSE "special_characters"
           [] fn = "_remove_special_characters" -> "white_space"
           [] OTHER -> "done"

\* the first statement of each function
FirstPc(fn) ==
    CASE fn = "latex_normalizer" -> "line_comments"
      [] fn = "_remove_line_comments" -> "line_comments"
      [] fn = "_remove_commands" -> "commands"
      [] fn = "_remove_equations" -> "dollar_equations"
      [] fn = "_remove_dollar_equations" -> "dollar_equations"
      [] fn = "_excise_intervals" -> "excise"
      [] fn = "_matching_paren_pos" -> "paren"

\* the state in which fn has just been called with the text txt
Called(fn, txt) ==
    /\ entry = fn
    /\ pc = FirstPc(fn)
    /\ input = txt
    /\ text = txt
    /\ head = <<>>
    /\ tail = <<>>
    /\ tokens = <<>>
    /\ intervals = <<>>
    /\ open_paren = ""
    /\ close_paren = ""
    /\ pos = -1
    /\ err = "none"

locals == <<head, tail, tokens, intervals, open_paren, close_paren, pos>>

\* a step that rewrites the text and goes on
Rewrite(fn, new_text) ==
    /\ text' = new_text
    /\ pc' = Continue(fn)
    /\ UNCHANGED <<entry, input, err, locals>>

\* a step that raises: the exception leaves every caller
Raise(message) ==
    /\ err' = message
    /\ pc' = "done"
    /\ UNCHANGED <<entry, input, text, locals>>

LineCommentsStep ==
    /\ pc = "line_comments"
    /\ Rewrite("_remove_line_comments", RemoveLineComments(text))

AccentsStep ==
    /\ pc = "accents"
    /\ Rewrite("_remove_accents", RemoveAccents(text))

NormalizeCommandsStep ==
    /\ pc = "normalize_commands"
    /\ Rewrite("_normalize_commands", NormalizeCommands(text))

EnvironmentsStep ==
    /\ pc = "environments"
    /\ Rewrite("_remove_environments", RemoveEnvironments(text))

LabelsStep ==
    /\ pc = "labels"
    /\ Rewrite("_strip_environments_labels", StripEnvironmentsLabels(text))

\* _remove_commands: head = '' and tail = text
CommandsStart ==
    /\ pc = "commands"
    /\ head' = <<>>
    /\ tail' = text
    /\ pc' = "commands_outer"
    /\ UNCHANGED <<entry, input, text, tokens, intervals, open_paren, close_paren,
                   pos, err>>

\* the test of the outer while loop and, in the loop, the split
CommandsOuterPass ==
    /\ pc = "commands_outer"
    /\ LET broken_text == CommandSplit(tail)
       IN  IF tail = <<>>
              THEN /\ pc' = "commands_return"
                   /\ UNCHANGED <<head, tail>>
           ELSE IF Len(broken_text) = 1
              THEN /\ head' = head \o broken_text[1]
                   /\ pc' = "commands_return"
                   /\ UNCHANGED tail
           ELSE /\ head' = head \o broken_text[1] \o <<SP>>
                /\ tail' = broken_text[2]
                /\ pc' = "commands_inner"
    /\ UNCHANGED <<entry, input, text, tokens, intervals, open_paren, close_paren,
                   pos, err>>

\* the test of the inner while loop and, in the loop, one bracket group
CommandsInnerPass ==
    /\ pc = "commands_inner"
    /\ IF tail = <<>>
          THEN /\ pc' = "commands_outer"
               /\ UNCHANGED tail
       ELSE IF At(tail, 0) \in DOMAIN paren_dict
          THEN LET m == MatchingParenPos(tail, At(tail, 0), paren_dict[At(tail, 0)])
               IN  IF m.err = "none"
                      THEN /\ tail' = From(tail, m.val + 1)
                           /\ pc' = "commands_inner"
                      ELSE /\ tail' = From(tail, 1)
                           /\ pc' = "commands_outer"
       ELSE /\ pc' = "commands_outer"
            /\ UNCHANGED tail
    /\ UNCHANGED <<entry, input, text, head, tokens, intervals, open_paren,
                   close_paren, pos, err>>

\* return head
CommandsReturn ==
    /\ pc = "commands_return"
    /\ text' = head
    /\ pc' = Continue("_remove_commands")
    /\ UNCHANGED <<entry, input, err, locals>>

\* _remove_dollar_equations: the syntax check and the tokens
DollarStart ==
    /\ pc = "dollar_equations"
    /\ IF BadSyntax(text)
          THEN Raise("LaTeX syntax error")
          ELSE /\ tokens' = Tokens(text, 0)
               /\ intervals' = <<>>
               /\ pc' = "dollar_pair"
               /\ UNCHANGED <<entry, input, text, head, tail, open_paren,
                              close_paren, pos, err>>

\* one pass of the pairing loop
DollarPairPass ==
    /\ pc = "dollar_pair"
    /\ tokens # <<>>
    /\ LET r == PairPass(tokens, intervals)
       IN  /\ tokens' = r.tokens
           /\ intervals' = r.intervals
           /\ err' = r.err
           /\ pc' = IF r.err = "none" THEN "dollar_pair" ELSE "done"
    /\ UNCHANGED <<entry, input, text, head, tail, open_paren, close_paren, pos>>

\* the loop has ended: return _excise_intervals(text, intervals)
DollarExcise ==
    /\ pc = "dollar_pair"
    /\ tokens = <<>>
    /\ LET r == ExciseIntervals(text, intervals)
       IN  IF r.err = "none"
              THEN Rewrite("_remove_dollar_equations", r.val)
              ELSE Raise(r.err)

BracketEquationsStep ==
    /\ pc = "bracket_equations"
    /\ LET r == RemoveBracketEquations(text)
       IN  IF r.err = "none"
              THEN Rewrite("_remove_bracket_equations", r.val)
              ELSE Raise(r.err)

SpecialCharactersStep ==
    /\ pc = "special_characters"
    /\ Rewrite("_remove_special_characters", RemoveSpecialCharacters(text))

WhiteSpaceStep ==
    /\ pc = "white_space"
    /\ Rewrite("_remove_white_space", RemoveWhiteSpace(text))

\* _excise_intervals(text, intervals)
ExciseCall ==
    /\ pc = "excise"
    /\ LET r == ExciseIntervals(text, intervals)
       IN  /\ text' = r.val
           /\ err' = r.err
    /\ pc' = "done"
    /\ UNCHANGED <<entry, input, head, tail, tokens, intervals, open_paren,
                   close_paren, pos>>

\* _matching_paren_pos(string, open_paren, close_paren)
ParenCall ==
    /\ pc = "paren"
    /\ LET r == MatchingParenPos(text, open_paren, close_paren)
       IN  /\ pos' = r.val
           /\ err' = r.err
    /\ pc' = "done"
    /\ UNCHANGED <<entry, input, text, head, tail, tokens, intervals, open_paren,
                   close_paren>>

\* latex_normalizer(text)
Init == \E txt \in PipelineInputs : Called("latex_normalizer", txt)

Next ==
    \/ LineCommentsStep
    \/ AccentsStep
    \/ NormalizeCommandsStep
    \/ EnvironmentsStep
    \/ LabelsStep
    \/ CommandsStart
    \/ CommandsOuterPass
    \/ CommandsInnerPass
    \/ CommandsReturn
    \/ DollarStart
    \/ DollarPairPass
    \/ DollarExcise
    \/ BracketEquationsStep
    \/ SpecialCharactersStep
    \/ WhiteSpaceStep

Spec == Init /\ [][Next]_vars

(***************************************************************************)
(* Properties of latex_normalizer                                          *)
(***************************************************************************)
Returned == pc = "done" /\ err = "none"
Normalized == entry = "latex_normalizer" /\ Returned

\* ^[a-zA-Z]+( [a-zA-Z]+)*$ or the empty string
WellFormedOutput(txt) ==
    /\ \A k \in 1..Len(txt) : IsAsciiLetter(txt[k]) \/ txt[k] = SP
    /\ txt # <<>> => txt[1] # SP /\ txt[Len(txt)] # SP
    /\ \A k \in 1..(Len(txt) - 1) : ~(txt[k] = SP /\ txt[k + 1] = SP)

\* C1: whenever latex_normalizer returns, the returned text is empty or is
\* runs of ASCII letters separated by exactly one space each, with no leading
\* or trailing space.
C1_OutputAlphabet == Normalized => WellFormedOutput(text)

\* latex_normalizer has returned two words or more for an input with a
\* digit, a tab and a letter outside ASCII
C1_Witness ==
    /\ Normalized
    /\ Contains(input, "2") /\ Contains(input, "\t") /\ Contains(input, "é")
    /\ Contains(text, SP)

\* every dollar sign of txt (there is one) follows exactly one backslash
OnlyEscapedDollars(txt) ==
    /\ Contains(txt, "$")
    /\ \A i \in 0..(Len(txt) - 1) :
          At(txt, i) = "$" =>
              /\ i >= 1 /\ At(txt, i - 1) = BS
              /\ i >= 2 => At(txt, i - 2) # BS

\* C2: on an input whose only dollar signs are escaped ones, latex_normalizer
\* records no equation interval and does not fail with 'LaTeX syntax error'.
C2_EscapedDollarIsNoDelimiter ==
    (entry = "latex_normalizer" /\ OnlyEscapedDollars(input)) =>
        intervals = <<>> /\ err # "LaTeX syntax error"

\* the positions of txt between a matched \( and \) or \[ and \], the
\* markers included
InBracketEquation(txt, i) ==
    LET round == MatchingBracketsDigram(txt, <<BS, "(">>, <<BS, ")">>)
        square == MatchingBracketsDigram(txt, <<BS, "[">>, <<BS, "]">>)
        ivs == round.val \o square.val
    IN  \E k \in 1..Len(ivs) : ivs[k][1] <= i /\ i <= ivs[k][2]

\* the letter c occurs in txt, and only inside escape-bracket equations
OnlyInBracketEquation(txt, c) ==
    /\ Contains(txt, c)
    /\ \A i \in 0..(Len(txt) - 1) : At(txt, i) = c => InBracketEquation(txt, i)

\* C3: a letter that occurs in the input only between a matched \( and \)
\* or \[ and \] does not occur in the text latex_normalizer returns, and
\* 'see \(x + y\) here' becomes 'see here'.
C3_BracketEquationsRemoved ==
    Normalized =>
        /\ \A c \in LowerCase \cup UpperCase :
              OnlyInBracketEquation(input, c) => ~Contains(text, c)
        /\ input = ExRoundEquation =>
              text = <<"s", "e", "e", SP, "h", "e", "r", "e">>

\* C4: latex_normalizer('$$ \text{$nested$} $$') ends with the exception
\* 'LaTeX syntax error' and returns nothing.
C4_NestedEquationRejected ==
    (entry = "latex_normalizer" /\ pc = "done" /\ input = ExNested) =>
        err = "LaTeX syntax error"

(***************************************************************************)
(* Calls of the single functions                                           *)
(***************************************************************************)
MaxDollarLen == 8
DollarAlphabet == {"$", "a", BS}
DollarInputs ==
    TextsOver(DollarAlphabet, MaxDollarLen)
    \cup {ExBackToBack, ExDisplayPair, ExTripleOpen, ExEscapedInEquation,
          ExEscapedDollars, ExNested, ExLineBreakEquation}

\* _remove_dollar_equations(text)
InitDollar == \E txt \in DollarInputs : Called("_remove_dollar_equations", txt)
NextDollar == DollarStart \/ DollarPairPass \/ DollarExcise
SpecDollar == InitDollar /\ [][NextDollar]_vars

MaxIndex == 4
MaxIntervals == 3
Alphabetic ==
    <<"a", "b", "c", "d", "e", "f", "g", "h", "i", "j", "k", "l", "m",
      "n", "o", "p", "q", "r", "s", "t", "u", "v", "w", "x", "y", "z">>
\* the texts that have every index below MaxIndex, and MaxIndex or not
ExciseTexts == {SubSeq(Alphabetic, 1, n) : n \in {MaxIndex, MaxIndex + 1}}
\* intervals (start, end) with start <= end
OrderedIntervals == {iv \in (0..MaxIndex) \X (0..MaxIndex) : iv[1] <= iv[2]}
IntervalLists == UNION {[1..k -> OrderedIntervals] : k \in 0..MaxIntervals}

\* _excise_intervals(text, intervals)
InitExcise ==
    \E txt \in ExciseTexts, ivs \in IntervalLists :
        /\ entry = "_excise_intervals"
        /\ pc = FirstPc("_excise_intervals")
        /\ input = txt
        /\ text = txt
        /\ intervals = ivs
        /\ head = <<>> /\ tail = <<>> /\ tokens = <<>>
        /\ open_paren = "" /\ close_paren = ""
        /\ pos = -1
        /\ err = "none"
NextExcise == ExciseCall
SpecExcise == InitExcise /\ [][NextExcise]_vars

MaxParenLen == 6
ParenAlphabet == {"{", "}", "[", "]", "a"}

\* _matching_paren_pos(string, open_paren, close_paren), with the pairs of
\* paren_dict
InitParen ==
    \E txt \in TextsOver(ParenAlphabet, MaxParenLen), o \in DOMAIN paren_dict :
        /\ entry = "_matching_paren_pos"
        /\ pc = FirstPc("_matching_paren_pos")
        /\ input = txt
        /\ text = txt
        /\ open_paren = o
        /\ close_paren = paren_dict[o]
        /\ head = <<>> /\ tail = <<>> /\ tokens = <<>> /\ intervals = <<>>
        /\ pos = -1
        /\ err = "none"
NextParen == ParenCall
SpecParen == InitParen /\ [][NextParen]_vars

MaxCommentLen == 6
CommentAlphabet == {BS, "%", "a", NL}

\* _remove_line_comments(text)
InitComments ==
    \E txt \in TextsOver(CommentAlphabet, MaxCommentLen) \cup {ExComment} :
        Called("_remove_line_comments", txt)
NextComments == LineCommentsStep
SpecComments == InitComments /\ [][NextComments]_vars

MaxCommandLen == 5
CommandAlphabet == {BS, "a", "*", "{", "}", "$"}

\* _remove_commands(text), called on its own or by latex_normalizer(text)
InitCommands ==
    \/ \E txt \in TextsOver(CommandAlphabet, MaxCommandLen) :
          Called("_remove_commands", txt)
    \/ Init
NextCommands == Next
SpecCommands == InitCommands /\ [][NextCommands]_vars

(***************************************************************************)
(* Properties of _remove_dollar_equations                                  *)
(***************************************************************************)
\* the maximal runs of dollar signs of txt, as (start, length), left to right
RECURSIVE DollarRunsFrom(_, _)
DollarRunsFrom(txt, i) ==
    IF i >= Len(txt) THEN <<>>
    ELSE IF At(txt, i) # "$" THEN DollarRunsFrom(txt, i + 1)
    ELSE LET n == CHOOSE m \in 1..(Len(txt) - i) :
                     /\ \A j \in i..(i + m - 1) : At(txt, j) = "$"
                     /\ i + m < Len(txt) => At(txt, i + m) # "$"
         IN  << <<i, n>> >> \o DollarRunsFrom(txt, i + n)

\* the pairing from the right end: the intervals, or an error
RECURSIVE RightToLeftPairing(_, _)
RightToLeftPairing(toks, ivs) ==
    IF toks = <<>> THEN [err |-> "none", val |-> ivs]
    ELSE IF Len(toks) = 1 THEN [err |-> "LaTeX syntax error", val |-> <<>>]
    ELSE LET open == toks[Len(toks) - 1]
             close == toks[Len(toks)]
             below == SubSeq(toks, 1, Len(toks) - 2)
             close_end == close[1] + close[2] - 1
         IN  IF close[2] = 3 \/ close[2] > open[2]
                THEN [err |-> "LaTeX syntax error", val |-> <<>>]
             ELSE IF close[2] = open[2]
                THEN RightToLeftPairing(below, Append(ivs, <<open[1], close_end>>))
             ELSE RightToLeftPairing(
                    Append(below, <<open[1], open[2] - close[2]>>),
                    Append(ivs, <<open[1] + open[2] - close[2], close_end>>))

\* txt with every interval of ivs replaced by one space, the intervals
\* being disjoint
RECURSIVE SpacedOut(_, _, _)
SpacedOut(txt, ivs, i) ==
    IF i >= Len(txt) THEN <<>>
    ELSE IF \E k \in 1..Len(ivs) : ivs[k][1] = i
        THEN LET k == CHOOSE j \in 1..Len(ivs) : ivs[j][1] = i
             IN  <<SP>> \o SpacedOut(txt, ivs, ivs[k][2] + 1)
    ELSE <<At(txt, i)>> \o SpacedOut(txt, ivs, i + 1)

HasLongDollarRun(txt) ==
    \E k \in 1..Len(DollarRunsFrom(txt, 0)) : DollarRunsFrom(txt, 0)[k][2] >= 5

ReferenceDollar(txt) ==
    LET p == RightToLeftPairing(DollarRunsFrom(txt, 0), <<>>)
    IN  IF HasLongDollarRun(txt) \/ p.err # "none"
            THEN [err |-> "LaTeX syntax error", val |-> <<>>]
            ELSE [err |-> "none", val |-> SpacedOut(txt, p.val, 0)]

DollarDone == entry = "_remove_dollar_equations" /\ pc = "done"

\* C5: on a text without backslashes _remove_dollar_equations ends as the
\* right-to-left pairing of the maximal runs of 1 to 4 dollar signs does: with
\* 'LaTeX syntax error' where the pairing fails or a run is 5 or longer, and
\* otherwise with every paired equation replaced by one space; '$ back $$
\* to $$ back $' gives three spaces and '$$ $$$$ $$' two.
C5_DollarPairing ==
    (DollarDone /\ ~Contains(input, BS)) =>
        /\ err = ReferenceDollar(input).err
        /\ err = "none" => text = ReferenceDollar(input).val
        /\ input = ExBackToBack => err = "none" /\ text = <<SP, SP, SP>>
        /\ input = ExDisplayPair => err = "none" /\ text = <<SP, SP>>
        /\ HasLongDollarRun(input) => err = "LaTeX syntax error"

\* a text without backslashes with a run of three dollar signs was paired
\* into two equations or more
C5_Witness ==
    /\ DollarDone /\ err = "none" /\ ~Contains(input, BS)
    /\ Len(intervals) >= 2
    /\ \E k \in 1..Len(DollarRunsFrom(input, 0)) : DollarRunsFrom(input, 0)[k][2] = 3

\* the token stack is the one the function has just computed from the text
TokensComputed ==
    entry = "_remove_dollar_equations" /\ pc = "dollar_pair" /\ intervals = <<>>

\* the token (p, n) is the n dollar signs of the run that starts at p
IsDollarRunToken(txt, tok) ==
    /\ 1 <= tok[2] /\ tok[2] <= MaxTokenLen
    /\ tok[1] < Len(txt) /\ At(txt, tok[1]) = "$"
    /\ tok[2] = DollarRun(txt, tok[1])

\* C11: every token (position, length) of _remove_dollar_equations is the
\* index of the first dollar sign of a run of unescaped dollar signs and the
\* number of dollar signs of that run, between 1 and 4, also after an even
\* number of backslashes; two backslashes followed by '$x$' give the tokens
\* (2, 1) and (4, 1), and the call returns the two backslashes and one space.
C11_TokenIsDollarRun ==
    /\ TokensComputed =>
          /\ \A k \in 1..Len(tokens) : IsDollarRunToken(text, tokens[k])
          /\ input = ExLineBreakEquation => tokens = << <<2, 1>>, <<4, 1>> >>
    /\ (DollarDone /\ input = ExLineBreakEquation) =>
          err = "none" /\ text = <<BS, BS, SP>>

(***************************************************************************)
(* Properties of _excise_intervals                                         *)
(***************************************************************************)
ExciseDone == entry = "_excise_intervals" /\ pc = "done"

InBounds(txt, iv) == 0 <= iv[1] /\ iv[1] <= iv[2] /\ iv[2] <= Len(txt) - 1
AllInBounds(txt, ivs) == \A k \in 1..Len(ivs) : InBounds(txt, ivs[k])
Within(a, b) == b[1] <= a[1] /\ a[2] <= b[2]
Disjoint(a, b) == a[2] < b[1] \/ b[2] < a[1]
PairwiseDisjoint(ivs) ==
    \A j, k \in 1..Len(ivs) : j # k => Disjoint(ivs[j], ivs[k])

\* C6: of two intervals in bounds, one within the other (as when they share
\* their start) is accepted and removed as their union with one space; two
\* that cross fail with 'non-trivially overlapping intervals'; the order of
\* the list does not matter.
C6_OverlapPolicy ==
    (ExciseDone /\ Len(intervals) = 2 /\ AllInBounds(input, intervals)) =>
        LET a == intervals[1]
            b == intervals[2]
            swapped == ExciseIntervals(input, <<b, a>>)
        IN  /\ Within(a, b) => err = "none" /\ text = SpacedOut(input, <<b>>, 0)
            /\ Within(b, a) => err = "none" /\ text = SpacedOut(input, <<a>>, 0)
            /\ (~Disjoint(a, b) /\ ~Within(a, b) /\ ~Within(b, a)) =>
                    err = "non-trivially overlapping intervals"
            /\ err = swapped.err
            /\ err = "none" => text = swapped.val

RECURSIVE SumOfSpans(_)
SumOfSpans(ivs) ==
    IF ivs = <<>> THEN 0 ELSE (ivs[1][2] - ivs[1][1]) + SumOfSpans(Tail(ivs))

\* C7: with pairwise disjoint intervals in bounds, _excise_intervals returns
\* the text with each interval replaced by one space and every other
\* character kept in place, so its length is that of the text less the sum
\* of end - start; the empty list returns the text unchanged.
C7_DisjointExcision ==
    (ExciseDone /\ AllInBounds(input, intervals) /\ PairwiseDisjoint(intervals)) =>
        /\ err = "none"
        /\ text = SpacedOut(input, intervals, 0)
        /\ Len(text) = Len(input) - SumOfSpans(intervals)
        /\ intervals = <<>> => text = input

\* two adjacent intervals, one longer than a character, were excised and
\* left two spaces side by side
C7_Witness ==
    /\ ExciseDone /\ err = "none"
    /\ Len(intervals) = 2
    /\ intervals[1][2] + 1 = intervals[2][1]
    /\ intervals[1][1] < intervals[1][2]
    /\ \E k \in 1..(Len(text) - 1) : text[k] = SP /\ text[k + 1] = SP

(***************************************************************************)
(* Properties of _matching_paren_pos                                       *)
(***************************************************************************)
ParenDone == entry = "_matching_paren_pos" /\ pc = "done"

\* the running depth after the character at position p
DepthAfter(txt, p, open, close) ==
    Cardinality({i \in 0..p : At(txt, i) = open})
    - Cardinality({i \in 0..p : At(txt, i) = close})

ReturnsToZero(txt, open, close) ==
    {p \in 0..(Len(txt) - 1) : DepthAfter(txt, p, open, close) = 0}

\* C8: _matching_paren_pos fails with 'leading character ...' when the text
\* is empty or does not start with the open character; otherwise it returns
\* the first position where the running depth is back to zero, and fails with
\* 'unmatched parenthesis' when there is none.
C8_MatchingParenPos ==
    ParenDone =>
        LET zeros == ReturnsToZero(input, open_paren, close_paren)
        IN  IF input = <<>> \/ input[1] # open_paren
                THEN err = "leading character"
            ELSE IF zeros # {}
                THEN err = "none" /\ pos = CHOOSE p \in zeros : \A z \in zeros : p <= z
            ELSE err = "unmatched parenthesis"

(***************************************************************************)
(* Properties of _remove_line_comments                                     *)
(***************************************************************************)
CommentsDone == entry = "_remove_line_comments" /\ pc = "done"

\* the number of consecutive backslashes that end just before position i
RECURSIVE BackslashesBefore(_, _)
BackslashesBefore(txt, i) ==
    IF i >= 1 /\ At(txt, i - 1) = BS THEN 1 + BackslashesBefore(txt, i - 1) ELSE 0

\* txt from position i on, with every comment replaced by one space: a
\* comment starts at a percent sign after an even number of backslashes and
\* takes the rest of its line, the newline if there is one included
RECURSIVE WithoutComments(_, _)
WithoutComments(txt, i) ==
    IF i >= Len(txt) THEN <<>>
    ELSE IF At(txt, i) = "%" /\ BackslashesBefore(txt, i) % 2 = 0
        THEN <<SP>> \o WithoutComments(txt, NextNewline(txt, i) + 1)
    ELSE <<At(txt, i)>> \o WithoutComments(txt, i + 1)

\* C9: _remove_line_comments replaces every comment by one space, on every
\* line, the last line that no newline ends included, and keeps everything
\* else, a percent sign after an odd number of backslashes included.
C9_LineComments == CommentsDone => text = WithoutComments(input, 0)

(***************************************************************************)
(* Termination of the loops                                                *)
(***************************************************************************)
\* a pass of the outer loop of _remove_commands leaves the loop or shortens tail
OuterPassProgress ==
    pc = "commands_outer" => pc' = "commands_return" \/ Len(tail') < Len(tail)

\* a pass of the inner loop leaves the loop or shortens tail
InnerPassProgress ==
    pc = "commands_inner" => pc' = "commands_outer" \/ Len(tail') < Len(tail)

\* a pass of the pairing loop raises or takes a token off the stack
PairPassProgress ==
    (pc = "dollar_pair" /\ tokens # <<>>) =>
        pc' = "done" \/ Len(tokens') < Len(tokens)

\* the statements of latex_normalizer and of the functions it calls, in
\* the order in which a call reaches them, from the last to the first
Statements ==
    <<"done", "white_space", "special_characters", "bracket_equations",
      "dollar_pair", "dollar_equations", "commands_return", "commands_loops",
      "commands", "labels", "environments", "normalize_commands", "accents",
      "line_comments">>

StatementNo(p) ==
    LET q == IF p \in {"commands_outer", "commands_inner"} THEN "commands_loops" ELSE p
    IN  CHOOSE k \in 1..Len(Statements) : Statements[k] = q

\* what is left to do in the loop the call is in
LoopMeasure ==
    CASE pc = "commands_outer" -> 2 * Len(tail)
      [] pc = "commands_inner" -> 2 * Len(tail) + 1
      [] pc = "dollar_pair" -> Len(tokens)
      [] OTHER -> 0

\* a natural number that bounds the number of steps the call can still take
Rank == StatementNo(pc) * (2 * Len(input) + 2) + LoopMeasure

\* C10: every pass of the loops of _remove_commands leaves its loop or
\* strictly shortens tail, every pass of the pairing loop of
\* _remove_dollar_equations raises or strictly shrinks the token stack, and
\* no call of latex_normalizer runs forever: every step it takes, a pass of a
\* loop included, lowers a rank that is a natural number.
C10_Termination ==
    /\ []((pc \in {"commands_outer", "commands_inner"} \/ Contains(Statements, pc))
            /\ Rank \in Nat /\ LoopMeasure < 2 * Len(input) + 2)
    /\ [][/\ OuterPassProgress /\ InnerPassProgress /\ PairPassProgress
          /\ Rank' < Rank]_vars

\* the inner loop is at an opening bracket that nothing closes, after a
\* command that is a lone backslash
C10_Witness ==
    /\ entry = "latex_normalizer"
    /\ pc = "commands_inner"
    /\ tail # <<>> /\ At(tail, 0) = "{"
    /\ MatchingParenPos(tail, "{", "}").err # "none"
    /\ At(text, Len(text) - Len(tail) - 1) = BS

(***************************************************************************)
(* Properties of _remove_commands                                          *)
(***************************************************************************)
NoBackslash(txt) == ~Contains(txt, BS)

\* no '$' of txt directly follows a backslash
EveryDollarUnescaped(txt) ==
    \A i \in 0..(Len(txt) - 1) : At(txt, i) = "$" => BackslashesBefore(txt, i) = 0

\* neither digram scan of _remove_bracket_equations finds a marker in txt
NoBracketMarker(txt) ==
    /\ \A i \in 0..(Len(txt) - 2) :
          Slice(txt, i, i + 2) \notin {<<BS, "(">>, <<BS, ")">>, <<BS, "[">>, <<BS, "]">>}
    /\ MatchingBracketsDigram(txt, <<BS, "(">>, <<BS, ")">>) = [err |-> "none", val |-> <<>>]
    /\ MatchingBracketsDigram(txt, <<BS, "[">>, <<BS, "]">>) = [err |-> "none", val |-> <<>>]

\* latex_normalizer is in _remove_equations
InEquationRemover ==
    /\ entry = "latex_normalizer"
    /\ pc \in {"dollar_equations", "dollar_pair", "bracket_equations"}

\* C12: the text _remove_commands returns contains no backslash, for every
\* input text.  So in latex_normalizer the text given to _remove_equations
\* contains none: every '$' the dollar-sign pass sees is unescaped, and the
\* escape-bracket pass finds no marker, never raises 'brackets are
\* unbalanced' and returns its input unchanged.
C12_NoBackslashAfterCommands ==
    /\ []((entry = "_remove_commands" /\ Returned) => NoBackslash(text))
    /\ [](InEquationRemover =>
            NoBackslash(text) /\ EveryDollarUnescaped(text) /\ NoBracketMarker(text))
    /\ [](err # "brackets are unbalanced")
    /\ [][(entry = "latex_normalizer" /\ pc = "bracket_equations") =>
            (pc' = "special_characters" /\ err' = "none" /\ text' = text)]_vars

\* the escape-bracket pass of latex_normalizer has run on an input that has
\* a matched \( and \), and has left the text between them in place
C12_Witness ==
    /\ entry = "latex_normalizer"
    /\ pc = "special_characters"
    /\ MatchingBracketsDigram(input, <<BS, "(">>, <<BS, ")">>).val # <<>>
    /\ Contains(text, "x")

====
